---- MODULE Spec2Model ----
(***************************************************************************)
(* Activation steering notebooks (gpt2-xl): pytorch_hooks, baukit,         *)
(* transformer_lens, custom_wrapper and bias_editing.                      *)
(*                                                                         *)
(* Each notebook is a linear script of cells.  The state is the attachment *)
(* state of the interception point (forward hooks, the WrappedModule, the  *)
(* c_attn bias Parameter), the notebook's Python variables, and the        *)
(* position of the run.  Tensors live on a heap and variables hold         *)
(* references, so that in-place operations and aliasing are visible.       *)
(* Tensor scalars are fixed-point numbers: the integer n stands for the    *)
(* real n / Unit.  The batch axis always has size 1 and is left out: an    *)
(* activation of shape (1, S, Hidden) is a sequence of S vectors.          *)
(***************************************************************************)
EXTENDS Integers, Sequences, FiniteSets, TLC

VARIABLES variant, prompt, love, hate, coeff, weight,
          pc, heap, hooks, handle, nextId, cache,
          wrapped, wOutput, wSteer, biasRef, org_bias,
          act_love, act_hate, steering_vec,
          gen, evals, results, active, raised, aborted, calls

vars == <<variant, prompt, love, hate, coeff, weight,
          pc, heap, hooks, handle, nextId, cache,
          wrapped, wOutput, wSteer, biasRef, org_bias,
          act_love, act_hate, steering_vec,
          gen, evals, results, active, raised, aborted, calls>>

----------------------------------------------------------------------------
(* Bounds of the model and program constants.                              *)

Hidden == 2         \* hidden dimension (1600 in gpt2-xl)
Vocab == 3          \* token ids 0 .. Vocab-1; token 0 is the end-of-sequence id
MaxNewTokens == 2   \* max_new_tokens of a generate call (10 in the notebooks)
Unit == 16          \* fixed-point scale: the integer Unit stands for 1.0
MaxCalls == 3       \* longest sequence of bias calls explored in SpecBias
Coeff == 10         \* coeff = 10, and coeff = -10 for the negative direction

NaN == 0 - 1000000  \* IEEE not-a-number (0/0), outside the fixed-point range
None == 0           \* Python None for a reference; heap references start at 1
NF == 3 * Hidden    \* output width of c_attn (q, k, v): 4800 = 3 * 1600

Variants == {"hooks", "baukit", "tlens", "wrapper", "bias"}
Prompts == {<<1>>, <<2>>, <<1, 2>>}

----------------------------------------------------------------------------
(* Tensor arithmetic.                                                      *)

SAdd(x, y) == IF x = NaN \/ y = NaN THEN NaN ELSE x + y
SMul(x, y) == IF x = NaN \/ y = NaN THEN NaN ELSE x * y
Abs(x) == IF x < 0 THEN 0 - x ELSE x

RECURSIVE SumSeq(_)
SumSeq(s) == IF s = <<>> THEN 0 ELSE SAdd(Head(s), SumSeq(Tail(s)))

VAdd(a, b) == [k \in 1 .. Len(a) |-> SAdd(a[k], b[k])]
VSub(a, b) == [k \in 1 .. Len(a) |-> SAdd(a[k], SMul(-1, b[k]))]
VScale(c, a) == [k \in 1 .. Len(a) |-> SMul(c, a[k])]

(* Variant: the vector added at the last position only.                    *)
TAddLastOnly(a, v) ==
    [i \in 1 .. Len(a) |-> IF i = Len(a) THEN [k \in 1 .. Len(a[i]) |-> a[i][k] + v[1][k]] ELSE a[i]]

(* torch broadcasting of (1,S,H) + (1,1,H): the single position of v is    *)
(* added at every one of the S positions of a.                             *)
TAdd(a, v) == [i \in 1 .. Len(a) |-> VAdd(a[i], v[1])]
TScale(c, v) == [i \in 1 .. Len(v) |-> VScale(c, v[i])]

(* t[:, -1:, :] : the last position, kept as a sequence of length 1.       *)
LastPos(t) == <<t[Len(t)]>>

(* Tensor.norm(): Euclidean norm over all elements, rounded down to the    *)
(* fixed-point grid.  (NormL1 is the variant norm(p=1).)                   *)
NormL1(t) == SumSeq([i \in 1 .. Len(t) |-> SumSeq([k \in 1 .. Len(t[i]) |-> IF t[i][k] < 0 THEN 0 - t[i][k] ELSE t[i][k]])])
SumSq(t) == SumSeq([i \in 1 .. Len(t) |-> SumSeq([k \in 1 .. Len(t[i]) |-> t[i][k] * t[i][k]])])
SumAbs(t) == SumSeq([i \in 1 .. Len(t) |-> SumSeq([k \in 1 .. Len(t[i]) |-> Abs(t[i][k])])])
Norm(t) == CHOOSE r \in 0 .. SumAbs(t) : r * r <= SumSq(t) /\ SumSq(t) < (r + 1) * (r + 1)

(* x / n in fixed point, rounded to nearest; 0/0 is NaN as in IEEE          *)
(* arithmetic (torch raises no error on a division by zero).               *)
SDiv(x, n) == IF n = 0 THEN NaN
              ELSE IF x < 0 THEN 0 - ((2 * Abs(x) * Unit + n) \div (2 * n))
              ELSE (2 * x * Unit + n) \div (2 * n)
TDiv(t, n) == [i \in 1 .. Len(t) |-> [k \in 1 .. Len(t[i]) |-> SDiv(t[i][k], n)]]

----------------------------------------------------------------------------
(* The pretrained model (an external collaborator): a deterministic,       *)
(* causal function of the token prefix.  The interception point is the     *)
(* output of block layer_id (a tuple: activation, present), of             *)
(* blocks.layer_id.hook_resid_post (a bare tensor), or of the layernorm    *)
(* ln_1 of block layer_id (a bare tensor, fed to attn.c_attn).             *)

Emb(t) == [k \in 1 .. Hidden |-> (((t * (k + 1)) % 5) - 2) * Unit]

RECURSIVE PrefixAct(_, _)
PrefixAct(tokens, i) ==
    IF i = 0 THEN [k \in 1 .. Hidden |-> 0]
    ELSE VAdd(PrefixAct(tokens, i - 1), VScale(i, Emb(tokens[i])))

(* The point's own output for every position of the prefix.                *)
PointAct(tokens) == [i \in 1 .. Len(tokens) |-> PrefixAct(tokens, i)]

(* With the key/value cache a forward evaluation computes the positions    *)
(* from .. Len(tokens) only: the whole prompt first, then one new token.   *)
EvalAct(tokens, from) == SubSeq(PointAct(tokens), from, Len(tokens))

TuplePoint(v) == v \in {"hooks", "baukit", "wrapper"}

Weight(s) == [k \in 1 .. Hidden |-> [j \in 1 .. NF |-> ((k * k * j + j * j + s) % 5) - 2]]
Weights == {Weight(s) : s \in {0, 1}}
Bias0 == [j \in 1 .. NF |-> (((j * j + 1) % 4) - 1) * Unit]

(* transformers Conv1D.forward: x @ weight + bias, at every position.      *)
CAttn(x, W, b) ==
    [i \in 1 .. Len(x) |->
        [j \in 1 .. NF |-> SAdd(SumSeq([k \in 1 .. Hidden |-> SMul(x[i][k], W[k][j])]), b[j])]]

(* Greedy decoding (do_sample=False) of the value that reaches the rest of *)
(* the model at the last position.                                         *)
Logit(v) == SumSeq([k \in 1 .. Len(v) |-> SMul(k, v[k])])
Tok(v) == IF Logit(v) = NaN THEN 0 ELSE (Logit(v) \div Unit) % Vocab

(* What the layers after the interception point read: in bias_editing the  *)
(* layernorm output goes through attn.c_attn.                              *)
Downstream(v, act, W, b) == IF v = "bias" THEN CAttn(act, W, b) ELSE act

(* The never-intercepted model: generate() with no hook, no wrapper and    *)
(* the original bias.                                                      *)
PlainNext(v, W, tokens) ==
    LET d == Downstream(v, PointAct(tokens), W, Bias0) IN Tok(d[Len(d)])

RECURSIVE PlainGenerate(_, _, _, _)
PlainGenerate(v, W, tokens, n) ==
    IF n = MaxNewTokens THEN tokens
    ELSE LET t == PlainNext(v, W, tokens)
         IN IF t = 0 THEN Append(tokens, t)
            ELSE PlainGenerate(v, W, Append(tokens, t), n + 1)

(* The output the never-intercepted interception point passes on.         *)
PlainOut(v, tokens, from) ==
    IF TuplePoint(v) THEN <<EvalAct(tokens, from), Len(tokens)>> ELSE EvalAct(tokens, from)

(* The contrastive inputs ("Love", "Hate"): their activations at the last  *)
(* position differ (the notebooks print a non-zero steering_vec.norm()).   *)
ContrastPairs == {<<(<<1>>), (<<2>>)>>, <<(<<1>>), (<<1, 2>>)>>, <<(<<2, 1>>), (<<2>>)>>}
Coeffs == {0, Coeff}

----------------------------------------------------------------------------
(* The notebooks as scripts: one statement per step, with the cell it is   *)
(* in and whether it is inside a with-block (or is the block's exit).      *)

St(op, arg, cell, w) == [op |-> op, arg |-> arg, cell |-> cell, inWith |-> w]

CaptureWith(cell) ==
    << St("trace_enter", "cap", cell, FALSE), St("fwd", "love", cell, TRUE),
       St("read", "love", cell, TRUE), St("trace_exit", "", cell, TRUE),
       St("trace_enter", "cap", cell, FALSE), St("fwd", "hate", cell, TRUE),
       St("read", "hate", cell, TRUE), St("trace_exit", "", cell, TRUE) >>

SteerWith(cell) ==
    << St("trace_enter", "pos", cell, FALSE), St("generate", "pos", cell, TRUE),
       St("trace_exit", "", cell, TRUE),
       St("trace_enter", "neg", cell, FALSE), St("generate", "neg", cell, TRUE),
       St("trace_exit", "", cell, TRUE) >>

ProgHooks ==
    << St("reg_cache", "", 1, FALSE), St("fwd", "love", 1, FALSE), St("fwd", "hate", 1, FALSE),
       St("remove", "", 1, FALSE), St("read", "love", 1, FALSE), St("read", "hate", 1, FALSE),
       St("derive", "", 2, FALSE),
       St("reg_add", "pos", 3, FALSE), St("generate", "pos", 3, FALSE), St("remove", "", 3, FALSE),
       St("reg_add", "neg", 3, FALSE), St("generate", "neg", 3, FALSE), St("remove", "", 3, FALSE),
       St("generate", "base", 4, FALSE) >>

ProgBaukit ==
    CaptureWith(1) \o << St("derive", "", 2, FALSE) >> \o SteerWith(3)
    \o << St("generate", "base", 4, FALSE) >>

ProgTlens ==
    << St("run_with_cache", "love", 1, FALSE), St("read", "love", 1, FALSE),
       St("run_with_cache", "hate", 1, FALSE), St("read", "hate", 1, FALSE),
       St("derive", "", 2, FALSE),
       St("add_hook", "pos", 3, FALSE), St("generate", "pos", 3, FALSE), St("reset_hooks", "", 3, FALSE),
       St("add_hook", "neg", 3, FALSE), St("generate", "neg", 3, FALSE), St("reset_hooks", "", 3, FALSE),
       St("generate", "base", 4, FALSE) >>

ProgWrapper ==
    << St("wrap", "", 0, FALSE),
       St("fwd", "love", 1, FALSE), St("read", "love", 1, FALSE),
       St("fwd", "hate", 1, FALSE), St("read", "hate", 1, FALSE),
       St("derive", "", 2, FALSE),
       St("set_vec", "pos", 3, FALSE), St("generate", "pos", 3, FALSE),
       St("set_vec", "neg", 3, FALSE), St("generate", "neg", 3, FALSE),
       St("unwrap", "", 4, FALSE), St("generate", "base", 4, FALSE) >>

ProgBias ==
    CaptureWith(1) \o
    << St("derive", "", 2, FALSE), St("save_bias", "", 3, FALSE),
       St("change_bias", "pos", 4, FALSE), St("generate", "pos", 4, FALSE), St("reset_bias", "", 4, FALSE),
       St("change_bias", "neg", 4, FALSE), St("generate", "neg", 4, FALSE), St("reset_bias", "", 4, FALSE),
       St("generate", "base", 5, FALSE) >>
    \o SteerWith(6)

Prog(v) == CASE v = "hooks" -> ProgHooks
             [] v = "baukit" -> ProgBaukit
             [] v = "tlens" -> ProgTlens
             [] v = "wrapper" -> ProgWrapper
             [] v = "bias" -> ProgBias

Running == pc <= Len(Prog(variant))
Stmt == Prog(variant)[pc]
At(op) == Running /\ Stmt.op = op

(* The first statement of the cell after the one an error aborts; the      *)
(* kernel keeps its state and the later cells can still be run.            *)
NextCell(v, p) ==
    LET later == {q \in (p + 1) .. Len(Prog(v)) : Prog(v)[q].cell # Prog(v)[p].cell}
    IN IF later = {} THEN Len(Prog(v)) + 1
       ELSE CHOOSE q \in later : \A r \in later : q <= r

Sign(arg) == IF arg = "neg" THEN -1 ELSE 1

----------------------------------------------------------------------------
(* Heap of tensors and the callbacks of the notebooks.  An output of the   *)
(* interception point is <<ref, present>> for a tuple point and ref for a  *)
(* bare tensor; st is [out, heap, cache, nadd] while the hooks run.        *)

Alloc(hp, t) == Append(hp, t)
NewRef(hp) == Len(hp) + 1

ActRef(v, out) == IF TuplePoint(v) THEN out[1] ELSE out
ActOf(v, val) == IF TuplePoint(v) THEN val[1] ELSE val
Deref(v, out, hp) == IF TuplePoint(v) THEN <<hp[out[1]]>> \o Tail(out) ELSE hp[out]

(* Variant: steering_vec *= coeff, the scaling done in place.              *)
ScaleVecInPlace(c, sv, hp) == Append([hp EXCEPT ![sv] = TScale(c, hp[sv])], TScale(c, hp[sv]))

(* coeff*steering_vec: a new tensor. *)
ScaleVec(c, sv, hp) == Alloc(hp, TScale(c, hp[sv]))


(* Variant: a caching hook that returns (output[0],), which then replaces  *)
(* the module's output.                                                    *)
CacheHookReturnsAct(st) ==
    [st EXCEPT !.cache = Append(st.cache, st.out[1]), !.out = <<st.out[1]>>]

(* cache_hook: cache.append(output[0]); returns None, so the module's      *)
(* output stays as it is.                                                  *)
CacheHook(st) == [st EXCEPT !.cache = Append(st.cache, st.out[1])]


(* Variant: (output[0] + steering_vec,) without + output[1:].              *)
ActAddDropsRest(v, vec, st) ==
    LET sum == TAdd(st.heap[ActRef(v, st.out)], st.heap[vec])
    IN [st EXCEPT !.heap = Alloc(st.heap, sum),
                  !.out = IF TuplePoint(v) THEN <<NewRef(st.heap)>> ELSE NewRef(st.heap),
                  !.nadd = st.nadd + 1]

(* Variant: (output[0] + steering_vec,) + output[0:], the whole original   *)
(* output appended instead of its remainder.                               *)
ActAddKeepsWhole(v, vec, st) ==
    LET sum == TAdd(st.heap[ActRef(v, st.out)], st.heap[vec])
    IN [st EXCEPT !.heap = Alloc(st.heap, sum),
                  !.out = IF TuplePoint(v) THEN <<NewRef(st.heap)>> \o st.out
                          ELSE NewRef(st.heap),
                  !.nadd = st.nadd + 1]

(* act_add: (output[0] + steering_vec,) + output[1:] for a tuple point,    *)
(* output + steering_vec for a bare tensor; the sum is a new tensor that   *)
(* replaces the module's output.                                           *)
ActAdd(v, vec, st) ==
    LET sum == TAdd(st.heap[ActRef(v, st.out)], st.heap[vec])
    IN [st EXCEPT !.heap = Alloc(st.heap, sum),
                  !.out = IF TuplePoint(v) THEN <<NewRef(st.heap)>> \o Tail(st.out)
                          ELSE NewRef(st.heap),
                  !.nadd = st.nadd + 1]

(* baukit Trace's hook and TransformerLens' caching hook: apply            *)
(* edit_output when there is one, then keep the output.                    *)
Retain(v, vec, st) ==
    LET ed == IF vec # None THEN ActAdd(v, vec, st) ELSE st
    IN [ed EXCEPT !.cache = <<ed.out>>]

HookCall(v, h, st) ==
    CASE h.kind = "cache_hook" -> CacheHook(st)
      [] h.kind = "act_add" -> ActAdd(v, h.vec, st)
      [] h.kind = "retain" -> Retain(v, h.vec, st)

(* torch.nn.Module.__call__: the forward hooks run in registration order   *)
(* after every forward evaluation; a result that is not None replaces the  *)
(* output.                                                                 *)
RECURSIVE RunHooks(_, _, _, _)
RunHooks(v, hs, i, st) ==
    IF i > Len(hs) THEN st ELSE RunHooks(v, hs, i + 1, HookCall(v, hs[i], st))

(* WrappedModule.forward: self.output = self.module(...); the steered      *)
(* tuple when steering_vec is not None, else self.output.                  *)
WrappedForward(v, sv, st) ==
    IF sv # None THEN ActAdd(v, sv, st) ELSE st


(* Variant: a remove() that leaves the hook registered.                    *)
RemoveNothing(hs, id) == hs

(* Variant: a remove() through a stale handle (the handle of the hook      *)
(* registered before).                                                     *)
RemoveStaleHandle(hs, id) == SelectSeq(hs, LAMBDA h : h.id # id - 1)

(* handle.remove() and Trace.close(): the hook with that id is removed.    *)
RemoveHook(hs, id) == SelectSeq(hs, LAMBDA h : h.id # id)

(* The injected vectors in force at the interception point.                *)
InjVecs(hs, w, sv, hp) ==
    [i \in 1 .. Len(SelectSeq(hs, LAMBDA h : h.vec # None)) |->
        hp[SelectSeq(hs, LAMBDA h : h.vec # None)[i].vec]]
    \o (IF w /\ sv # None THEN <<hp[sv]>> ELSE <<>>)

Capturing(hs, w) == w \/ \E i \in 1 .. Len(hs) : hs[i].kind \in {"cache_hook", "retain"}

(* The lifecycle of the injection: INACTIVE -> ACTIVE on attach, enter  *)
(* scope, set steering vector or edit bias; ACTIVE -> INACTIVE on detach,  *)
(* exit scope, unwrap or restore.  active holds the mechanisms attached    *)
(* by a statement and not yet released by one.                             *)
Lifecycle == IF active = {} THEN "INACTIVE" ELSE "ACTIVE"


(* Variant: a one-time patch, applied to the first evaluation of a call    *)
(* (the one that starts at position 1) only.                               *)
HooksFirstEvalOnly(hs, from) == IF from = 1 THEN hs ELSE <<>>

(* A registered hook is bound to the module: it is called on every         *)
(* forward evaluation, whatever positions the evaluation computes.         *)
HooksAt(hs, from) == hs

(* Variant: self.output set to the value the wrapper returns.              *)
SelfOutputReturned(out0, w) == w.out

(* self.output = self.module(...): the wrapped module's own output out0,   *)
(* recorded before the steering branch computes the returned value w.      *)
SelfOutput(out0, w) == out0

(* One forward evaluation of the model over tokens[from ..], with the      *)
(* hooks hs on the interception point.                                     *)
Fwd(hs, tokens, from) ==
    LET hp0 == Alloc(heap, EvalAct(tokens, from))
        out0 == IF TuplePoint(variant) THEN <<NewRef(heap), Len(tokens)>> ELSE NewRef(heap)
        st0 == [out |-> out0, heap |-> hp0, cache |-> cache, nadd |-> 0]
        w == IF wrapped THEN WrappedForward(variant, wSteer, st0) ELSE st0
        h == RunHooks(variant, HooksAt(hs, from), 1, w)
        down == Downstream(variant, h.heap[ActRef(variant, h.out)], weight, h.heap[biasRef])
        capt == IF wrapped THEN <<w.heap[SelfOutput(out0, w)[1]]>>
                ELSE IF \E i \in 1 .. Len(hs) : hs[i].kind = "cache_hook"
                     THEN <<h.heap[h.cache[Len(h.cache)]]>>
                ELSE IF \E i \in 1 .. Len(hs) : hs[i].kind = "retain"
                     THEN <<h.heap[ActRef(variant, h.cache[1])]>>
                ELSE <<>>
    IN [heap |-> h.heap, cache |-> h.cache,
        wOutput |-> IF wrapped THEN SelfOutput(out0, w) ELSE wOutput,
        tok |-> Tok(down[Len(down)]),
        entry |-> [pc |-> pc, tokens |-> tokens, from |-> from,
                   orig |-> Deref(variant, out0, hp0),
                   ret |-> Deref(variant, h.out, h.heap),
                   down |-> down, nadd |-> h.nadd,
                   vecs |-> InjVecs(hs, wrapped, wSteer, heap),
                   capt |-> capt, life |-> Lifecycle,
                   bias |-> heap[biasRef]]]

(* Variant: the first position, [:, :1, :], in place of the last one.      *)
DifferenceFirstPos(hp, a, b) ==
    Alloc(hp, [i \in 1 .. 1 |-> VSub(hp[a][1], hp[b][1])])

(* steering_vec = act_love[:,-1:,:] - act_hate[:,-1:,:] is a new tensor    *)
(* of sequence length 1.                                                   *)
Difference(hp, a, b) ==
    Alloc(hp, [i \in 1 .. 1 |-> VSub(LastPos(hp[a])[1], LastPos(hp[b])[1])])

(* steering_vec /= steering_vec.norm() divides the tensor r in place; no   *)
(* check of the norm is made.                                              *)
Normalize(hp, r) == [hp EXCEPT ![r] = TDiv(hp[r], Norm(hp[r]))]

(* The steering vector cell: the difference, then the normalisation.       *)
Derive(hp, a, b) == Normalize(Difference(hp, a, b), NewRef(hp))


(* Variants: the product with the weight alone (steering_vec @ weight);    *)
(* the product added to the bias the model was loaded with; and an edit    *)
(* that also writes the Parameter object in place.                         *)
ChangeBiasNoBias(hp, b, W, vec) ==
    Alloc(hp, CAttn(<<hp[vec][1]>>, W, [j \in 1 .. NF |-> 0])[1])
ChangeBiasFromOriginal(hp, b, W, vec) ==
    Alloc(hp, CAttn(<<hp[vec][1]>>, W, hp[1])[1])
ChangeBiasInPlace(hp, b, W, vec) ==
    Alloc([hp EXCEPT ![b] = CAttn(<<hp[vec][1]>>, W, hp[b])[1]], CAttn(<<hp[vec][1]>>, W, hp[b])[1])

(* change_bias_attn: tilde_b = c_attn(steering_vec.squeeze()) is computed  *)
(* with the bias c_attn has at the time of the call, and becomes a new     *)
(* Parameter; the old Parameter object is not written.                     *)
ChangeBiasAttn(hp, b, W, vec) ==
    Alloc(hp, CAttn(<<hp[vec][1]>>, W, hp[b])[1])

(* reset_bias_attn: c_attn.bias = org_bias. *)
ResetBiasAttn(b, org) == org


(* Variant: an exit that is skipped when the block is left by an error.    *)
HooksOnRaiseSkipped(hs, id, inWith) == hs

(* Variant: the end of a generate call by an error removes the hook in     *)
(* every notebook.                                                         *)
HooksOnRaiseAlwaysRemoved(hs, id, inWith) == SelectSeq(hs, LAMBDA h : h.id # id)

(* The hooks left when an error leaves a generate call: Trace.__exit__     *)
(* closes the trace (removes its hook) inside a with-block; a plain        *)
(* statement after generate() is skipped.                                  *)
HooksOnRaise(hs, id, inWith) == IF inWith THEN RemoveHook(hs, id) ELSE hs

----------------------------------------------------------------------------
(* State after the model is loaded, and the steps of the notebooks.        *)

inputs == <<variant, prompt, love, hate, coeff, weight>>
pyvars == <<act_love, act_hate, steering_vec>>
wrapper == <<wrapped, wOutput, wSteer>>
params == <<biasRef, org_bias>>
ghost == <<raised, aborted, calls>>
errs == <<raised, aborted>>

NoResult == [done |-> FALSE, tokens |-> <<>>, evals |-> <<>>]
Idle == [on |-> FALSE, tokens |-> <<>>, n |-> 0, fin |-> FALSE]

Init ==
    /\ variant \in Variants
    /\ prompt \in Prompts
    /\ \E cp \in ContrastPairs : love = cp[1] /\ hate = cp[2]
    /\ coeff \in Coeffs
    /\ weight \in IF variant = "bias" THEN Weights
                  ELSE {Weight(0)}
    /\ pc = 1
    /\ heap = <<Bias0>>
    /\ biasRef = 1
    /\ org_bias = None
    /\ hooks = <<>>
    /\ handle = None
    /\ nextId = 1
    /\ cache = <<>>
    /\ wrapped = FALSE
    /\ wOutput = <<>>
    /\ wSteer = None
    /\ act_love = None
    /\ act_hate = None
    /\ steering_vec = None
    /\ gen = Idle
    /\ evals = <<>>
    /\ results = [p \in 1 .. Len(Prog(variant)) |-> NoResult]
    /\ active = {}
    /\ raised = {}
    /\ aborted = {}
    /\ calls = <<>>

Input(arg) == IF arg = "love" THEN love ELSE hate

(* handle = module.register_forward_hook(cache_hook(cache)), cache = []   *)
RegisterCacheHook ==
    /\ At("reg_cache")
    /\ hooks' = Append(hooks, [id |-> nextId, kind |-> "cache_hook", vec |-> None])
    /\ handle' = nextId
    /\ nextId' = nextId + 1
    /\ cache' = <<>>
    /\ pc' = pc + 1
    /\ UNCHANGED <<inputs, heap, wrapper, params, pyvars, gen, evals, results, active, ghost>>

(* _ = model(inputs): one forward evaluation over the whole input.       *)
ModelCall ==
    /\ At("fwd")
    /\ LET f == Fwd(hooks, Input(Stmt.arg), 1)
       IN /\ heap' = f.heap
          /\ cache' = f.cache
          /\ wOutput' = f.wOutput
          /\ evals' = <<f.entry>>
    /\ pc' = pc + 1
    /\ UNCHANGED <<inputs, hooks, handle, nextId, wrapped, wSteer, params, pyvars, gen,
                   results, active, ghost>>

(* _, cache = model.run_with_cache(text): the caching hook is added, the   *)
(* model is run once and the hook is removed again.                        *)
RunWithCache ==
    /\ At("run_with_cache")
    /\ LET hs == Append(hooks, [id |-> nextId, kind |-> "retain", vec |-> None])
           f == Fwd(hs, Input(Stmt.arg), 1)
       IN /\ heap' = f.heap
          /\ cache' = f.cache
          /\ evals' = <<f.entry>>
          /\ hooks' = RemoveHook(hs, nextId)
    /\ nextId' = nextId + 1
    /\ pc' = pc + 1
    /\ UNCHANGED <<inputs, handle, wrapper, params, pyvars, gen, results, active, ghost>>

(* handle.remove() *)
HandleRemove ==
    /\ At("remove")
    /\ hooks' = RemoveHook(hooks, handle)
    /\ active' = active \ {"hook"}
    /\ pc' = pc + 1
    /\ UNCHANGED <<inputs, heap, handle, nextId, cache, wrapper, params, pyvars, gen, evals,
                   results, ghost>>


(* Variant: both activations read from cache[0].                           *)
CapturedFirstEntry(v, which, ch, wout) ==
    CASE v = "baukit" -> ch[1][1]
      [] v = "wrapper" -> wout[1]
      [] OTHER -> ch[1]

(* act_love = ..., act_hate = ...: the captured activation is read from    *)
(* cache[0] / cache[1], cache.output[0], cache.output, cache[cache_name]   *)
(* or the wrapper's output[0].                                             *)
Captured(v, which, ch, wout) ==
    CASE v = "hooks" -> IF which = "love" THEN ch[1] ELSE ch[2]
      [] v = "baukit" -> ch[1][1]
      [] v = "wrapper" -> wout[1]
      [] OTHER -> ch[1]

ReadCapture ==
    /\ At("read")
    /\ IF Stmt.arg = "love"
       THEN act_love' = Captured(variant, "love", cache, wOutput) /\ UNCHANGED act_hate
       ELSE act_hate' = Captured(variant, "hate", cache, wOutput) /\ UNCHANGED act_love
    /\ pc' = pc + 1
    /\ UNCHANGED <<inputs, heap, hooks, handle, nextId, cache, wrapper, params, steering_vec,
                   gen, evals, results, active, ghost>>

(* The steering vector cell. *)
DeriveSteeringVec ==
    /\ At("derive")
    /\ heap' = Derive(heap, act_love, act_hate)
    /\ steering_vec' = NewRef(heap)
    /\ pc' = pc + 1
    /\ UNCHANGED <<inputs, hooks, handle, nextId, cache, wrapper, params, act_love, act_hate,
                   gen, evals, results, active, ghost>>

(* handle = module.register_forward_hook(act_add(coeff*steering_vec)) and  *)
(* model.add_hook(name=cache_name, hook=act_add(coeff*steering_vec)).      *)
RegisterActAdd ==
    /\ At("reg_add") \/ At("add_hook")
    /\ heap' = ScaleVec(Sign(Stmt.arg) * coeff, steering_vec, heap)
    /\ hooks' = Append(hooks, [id |-> nextId, kind |-> "act_add", vec |-> NewRef(heap)])
    /\ handle' = IF Stmt.op = "reg_add" THEN nextId ELSE handle
    /\ nextId' = nextId + 1
    /\ active' = active \cup {"hook"}
    /\ pc' = pc + 1
    /\ UNCHANGED <<inputs, cache, wrapper, params, pyvars, gen, evals, results, ghost>>

(* model.reset_hooks(): every hook of the model is removed. *)
ResetHooks ==
    /\ At("reset_hooks")
    /\ hooks' = <<>>
    /\ active' = active \ {"hook"}
    /\ pc' = pc + 1
    /\ UNCHANGED <<inputs, heap, handle, nextId, cache, wrapper, params, pyvars, gen, evals,
                   results, ghost>>

(* with Trace(module) as cache / with Trace(module, edit_output=...) as _  *)
TraceEnter ==
    /\ At("trace_enter")
    /\ IF Stmt.arg = "cap"
       THEN /\ hooks' = Append(hooks, [id |-> nextId, kind |-> "retain", vec |-> None])
            /\ UNCHANGED <<heap, active>>
       ELSE /\ heap' = ScaleVec(Sign(Stmt.arg) * coeff, steering_vec, heap)
            /\ hooks' = Append(hooks, [id |-> nextId, kind |-> "retain", vec |-> NewRef(heap)])
            /\ active' = active \cup {"hook"}
    /\ handle' = nextId
    /\ nextId' = nextId + 1
    /\ cache' = <<>>
    /\ pc' = pc + 1
    /\ UNCHANGED <<inputs, wrapper, params, pyvars, gen, evals, results, ghost>>

(* Leaving the with-block: Trace.__exit__ closes the trace. *)
TraceExit ==
    /\ At("trace_exit")
    /\ hooks' = RemoveHook(hooks, handle)
    /\ active' = active \ {"hook"}
    /\ pc' = pc + 1
    /\ UNCHANGED <<inputs, heap, handle, nextId, cache, wrapper, params, pyvars, gen, evals,
                   results, ghost>>

(* model.transformer.h[layer_id] = WrappedModule(model.transformer.h[layer_id]) *)
Wrap ==
    /\ At("wrap")
    /\ wrapped' = TRUE
    /\ wOutput' = <<>>
    /\ wSteer' = None
    /\ pc' = pc + 1
    /\ UNCHANGED <<inputs, heap, hooks, handle, nextId, cache, params, pyvars, gen, evals,
                   results, active, ghost>>

(* model.transformer.h[layer_id].steering_vec = coeff*steering_vec *)
SetSteeringVec ==
    /\ At("set_vec")
    /\ heap' = ScaleVec(Sign(Stmt.arg) * coeff, steering_vec, heap)
    /\ wSteer' = NewRef(heap)
    /\ active' = active \cup {"wrapper"}
    /\ pc' = pc + 1
    /\ UNCHANGED <<inputs, hooks, handle, nextId, cache, wrapped, wOutput, params, pyvars, gen,
                   evals, results, ghost>>

(* model.transformer.h[layer_id] = model.transformer.h[layer_id].module *)
Unwrap ==
    /\ At("unwrap")
    /\ wrapped' = FALSE
    /\ active' = active \ {"wrapper"}
    /\ pc' = pc + 1
    /\ UNCHANGED <<inputs, heap, hooks, handle, nextId, cache, wOutput, wSteer, params, pyvars,
                   gen, evals, results, ghost>>

(* org_bias = model.transformer.h[layer_id].attn.c_attn.bias *)
SaveOrgBias ==
    /\ At("save_bias")
    /\ org_bias' = biasRef
    /\ pc' = pc + 1
    /\ UNCHANGED <<inputs, heap, hooks, handle, nextId, cache, wrapper, biasRef, pyvars, gen,
                   evals, results, active, ghost>>

(* change_bias_attn(model, layer_id, coeff*steering_vec); calls logs the   *)
(* vector and the bias before and after the call.                          *)
ChangeBiasCall(c) ==
    LET hp1 == ScaleVec(c, steering_vec, heap)
        hp2 == ChangeBiasAttn(hp1, biasRef, weight, NewRef(heap))
    IN /\ heap' = hp2
       /\ biasRef' = NewRef(hp1)
       /\ calls' = Append(calls, [op |-> "change", vec |-> hp1[NewRef(heap)][1],
                                  before |-> heap[biasRef], after |-> hp2[NewRef(hp1)],
                                  weight |-> weight])
       /\ active' = active \cup {"bias"}

ChangeBias ==
    /\ At("change_bias")
    /\ ChangeBiasCall(Sign(Stmt.arg) * coeff)
    /\ pc' = pc + 1
    /\ UNCHANGED <<inputs, hooks, handle, nextId, cache, wrapper, org_bias, pyvars, gen, evals,
                   results, errs>>

(* reset_bias_attn(model, layer_id, org_bias) *)
ResetBiasCall ==
    /\ biasRef' = ResetBiasAttn(biasRef, org_bias)
    /\ calls' = Append(calls, [op |-> "reset", vec |-> [k \in 1 .. Hidden |-> 0],
                               before |-> heap[biasRef], after |-> heap[org_bias],
                               weight |-> weight])
    /\ active' = active \ {"bias"}

ResetBias ==
    /\ At("reset_bias")
    /\ ResetBiasCall
    /\ pc' = pc + 1
    /\ UNCHANGED <<inputs, heap, hooks, handle, nextId, cache, wrapper, org_bias, pyvars, gen,
                   evals, results, errs>>

(* model.generate(inputs, max_new_tokens=..., do_sample=False): the call *)
(* starts from the prompt, ...                                             *)
GenerateStart ==
    /\ At("generate")
    /\ ~gen.on
    /\ gen' = [on |-> TRUE, tokens |-> prompt, n |-> 0, fin |-> FALSE]
    /\ evals' = <<>>
    /\ UNCHANGED <<inputs, pc, heap, hooks, handle, nextId, cache, wrapper, params, pyvars,
                   results, active, ghost>>

(* ... performs one forward evaluation per new token (the whole prompt     *)
(* first, then the newest token only) and appends the greedy token, until  *)
(* max_new_tokens or the end-of-sequence token, ...                        *)
GenerateForward ==
    /\ At("generate")
    /\ gen.on /\ ~gen.fin
    /\ LET f == Fwd(hooks, gen.tokens, IF gen.n = 0 THEN 1 ELSE Len(gen.tokens))
       IN /\ heap' = f.heap
          /\ cache' = f.cache
          /\ wOutput' = f.wOutput
          /\ evals' = Append(evals, f.entry)
          /\ gen' = [gen EXCEPT !.tokens = Append(gen.tokens, f.tok),
                                !.n = gen.n + 1,
                                !.fin = (f.tok = 0 \/ gen.n + 1 = MaxNewTokens)]
    /\ UNCHANGED <<inputs, pc, hooks, handle, nextId, wrapped, wSteer, params, pyvars,
                   results, active, ghost>>

(* ... and returns the generated ids. *)
GenerateReturn ==
    /\ At("generate")
    /\ gen.on /\ gen.fin
    /\ results' = [results EXCEPT ![pc] = [done |-> TRUE, tokens |-> gen.tokens, evals |-> evals]]
    /\ gen' = Idle
    /\ pc' = pc + 1
    /\ UNCHANGED <<inputs, heap, hooks, handle, nextId, cache, wrapper, params, pyvars, evals,
                   active, ghost>>

(* A forward evaluation of a generate call raises (out of memory, an       *)
(* interrupt): the rest of the cell is skipped; a with-block is left       *)
(* through Trace.__exit__.                                                 *)
GenerateRaise ==
    /\ At("generate")
    /\ gen.on /\ ~gen.fin
    /\ hooks' = HooksOnRaise(hooks, handle, Stmt.inWith)
    /\ active' = IF Stmt.inWith THEN active \ {"hook"} ELSE active
    /\ raised' = raised \cup {pc}
    /\ aborted' = aborted \cup {Stmt.cell}
    /\ results' = [results EXCEPT ![pc] = [done |-> FALSE, tokens |-> gen.tokens, evals |-> evals]]
    /\ gen' = Idle
    /\ pc' = NextCell(variant, pc)
    /\ UNCHANGED <<inputs, heap, handle, nextId, cache, wrapper, params, pyvars, evals, calls>>

Next ==
    \/ RegisterCacheHook
    \/ ModelCall
    \/ RunWithCache
    \/ HandleRemove
    \/ ReadCapture
    \/ DeriveSteeringVec
    \/ RegisterActAdd
    \/ ResetHooks
    \/ TraceEnter
    \/ TraceExit
    \/ Wrap
    \/ SetSteeringVec
    \/ Unwrap
    \/ SaveOrgBias
    \/ ChangeBias
    \/ ResetBias
    \/ GenerateStart
    \/ GenerateForward
    \/ GenerateReturn
    \/ GenerateRaise

Spec == Init /\ [][Next]_vars

----------------------------------------------------------------------------
(* The two bias functions under any order of calls: org_bias is saved      *)
(* once, and then change_bias_attn (with any coefficient) and              *)
(* reset_bias_attn are called in any order.                                *)

UnitVecs ==
    { <<[k \in 1 .. Hidden |-> IF k = 1 THEN Unit ELSE 0]>>,
      <<[k \in 1 .. Hidden |-> IF k = Hidden THEN 0 - Unit ELSE 0]>>,
      <<[k \in 1 .. Hidden |-> IF k = 1 THEN 0 - 11 ELSE IF k = 2 THEN 11 ELSE 0]>> }
CallCoeffs == {0 - Coeff, 0, 1, Coeff}

InitBias ==
    /\ variant = "bias"
    /\ prompt = <<1>>
    /\ love = <<1>> /\ hate = <<2>>
    /\ coeff = Coeff
    /\ weight \in Weights
    /\ pc = Len(ProgBias) + 1
    /\ \E u \in UnitVecs : heap = <<Bias0, u>>
    /\ biasRef = 1
    /\ org_bias = 1
    /\ hooks = <<>>
    /\ handle = None
    /\ nextId = 1
    /\ cache = <<>>
    /\ wrapped = FALSE
    /\ wOutput = <<>>
    /\ wSteer = None
    /\ act_love = None
    /\ act_hate = None
    /\ steering_vec = 2
    /\ gen = Idle
    /\ evals = <<>>
    /\ results = [p \in 1 .. Len(ProgBias) |-> NoResult]
    /\ active = {}
    /\ raised = {}
    /\ aborted = {}
    /\ calls = <<>>

BiasChange ==
    /\ Len(calls) < MaxCalls
    /\ \E c \in CallCoeffs : ChangeBiasCall(c)
    /\ UNCHANGED <<inputs, pc, hooks, handle, nextId, cache, wrapper, org_bias, pyvars, gen,
                   evals, results, errs>>

BiasReset ==
    /\ Len(calls) < MaxCalls
    /\ ResetBiasCall
    /\ UNCHANGED <<inputs, pc, heap, hooks, handle, nextId, cache, wrapper, org_bias, pyvars,
                   gen, evals, results, errs>>

NextBias == BiasChange \/ BiasReset

SpecBias == InitBias /\ [][NextBias]_vars

----------------------------------------------------------------------------
(* The notebooks run on two contrastive inputs whose activations at the    *)
(* last position are identical (here: the same input twice).               *)

SamePairs == {<<(<<1>>), (<<1>>)>>, <<(<<1, 2>>), (<<1, 2>>)>>}

InitSame ==
    /\ variant \in Variants
    /\ prompt \in Prompts
    /\ \E cp \in SamePairs : love = cp[1] /\ hate = cp[2]
    /\ coeff \in Coeffs
    /\ weight \in IF variant = "bias" THEN Weights
                  ELSE {Weight(0)}
    /\ pc = 1
    /\ heap = <<Bias0>>
    /\ biasRef = 1
    /\ org_bias = None
    /\ hooks = <<>>
    /\ handle = None
    /\ nextId = 1
    /\ cache = <<>>
    /\ wrapped = FALSE
    /\ wOutput = <<>>
    /\ wSteer = None
    /\ act_love = None
    /\ act_hate = None
    /\ steering_vec = None
    /\ gen = Idle
    /\ evals = <<>>
    /\ results = [p \in 1 .. Len(Prog(variant)) |-> NoResult]
    /\ active = {}
    /\ raised = {}
    /\ aborted = {}
    /\ calls = <<>>

SpecSame == InitSame /\ [][Next]_vars

----------------------------------------------------------------------------
(* The steering vector cell on its own, statement by statement, for any    *)
(* two inputs of one or two tokens and captured activations whose values   *)
(* at the positions before the last are arbitrary.                         *)

Strings == {<<1>>, <<2>>, <<1, 1>>, <<1, 2>>, <<2, 1>>, <<2, 2>>}
DeriveAt == CHOOSE p \in 1 .. Len(ProgHooks) : ProgHooks[p].op = "derive"
OtherRows == {[k \in 1 .. Hidden |-> 0], [k \in 1 .. Hidden |-> (3 - 2 * k) * Unit]}
Activations(tokens) ==
    {PointAct(tokens)} \cup
    {[i \in 1 .. Len(tokens) |-> IF i < Len(tokens) THEN r ELSE PointAct(tokens)[i]] : r \in OtherRows}

InitDerive ==
    /\ variant = "hooks"
    /\ prompt = <<1>>
    /\ love \in Strings /\ hate \in Strings
    /\ coeff = Coeff
    /\ weight = Weight(0)
    /\ pc = DeriveAt
    /\ \E a \in Activations(love), b \in Activations(hate) : heap = <<Bias0, a, b>>
    /\ biasRef = 1
    /\ org_bias = None
    /\ hooks = <<>>
    /\ handle = 1
    /\ nextId = 2
    /\ cache = <<2, 3>>
    /\ wrapped = FALSE
    /\ wOutput = <<>>
    /\ wSteer = None
    /\ act_love = 2
    /\ act_hate = 3
    /\ steering_vec = None
    /\ gen = Idle
    /\ evals = <<>>
    /\ results = [p \in 1 .. Len(ProgHooks) |-> NoResult]
    /\ active = {}
    /\ raised = {}
    /\ aborted = {}
    /\ calls = <<>>

(* steering_vec = act_love[:,-1:,:]-act_hate[:,-1:,:] *)
DifferenceStep ==
    /\ At("derive") /\ steering_vec = None
    /\ heap' = Difference(heap, act_love, act_hate)
    /\ steering_vec' = NewRef(heap)
    /\ UNCHANGED <<inputs, pc, hooks, handle, nextId, cache, wrapper, params, act_love, act_hate,
                   gen, evals, results, active, ghost>>

(* steering_vec /= steering_vec.norm() *)
NormalizeStep ==
    /\ At("derive") /\ steering_vec # None
    /\ heap' = Normalize(heap, steering_vec)
    /\ pc' = pc + 1
    /\ UNCHANGED <<inputs, hooks, handle, nextId, cache, wrapper, params, pyvars,
                   gen, evals, results, active, ghost>>

NextDerive == DifferenceStep \/ NormalizeStep

SpecDerive == InitDerive /\ [][NextDerive]_vars

----------------------------------------------------------------------------
(* Properties.  Logs are the forward evaluations of the current call and   *)
(* of the finished (or aborted) generate calls.                            *)

Logs == {evals} \cup {results[p].evals : p \in DOMAIN results}
Entries == UNION {{l[i] : i \in 1 .. Len(l)} : l \in Logs}
PlainDown(e) == Downstream(variant, EvalAct(e.tokens, e.from), weight, Bias0)
ArgAt(p) == Prog(variant)[p].arg
FirstSteer == CHOOSE p \in 1 .. Len(Prog(variant)) :
                 ArgAt(p) = "pos" /\ \A q \in 1 .. (p - 1) : ArgAt(q) # "pos"
MatVec(W, v) == [j \in 1 .. NF |-> SumSeq([k \in 1 .. Hidden |-> SMul(v[k], W[k][j])])]
NoInjection ==
    /\ \A i \in 1 .. Len(hooks) : hooks[i].vec = None
    /\ wrapped => wSteer = None
    /\ heap[biasRef] = Bias0

(* C1: while an injection is attached, every forward evaluation of the     *)
(* interception point returns its own output plus the injected vector; in  *)
(* a generation call the addition is applied once per evaluation, in       *)
(* evaluation order (the n-th evaluation extends the prompt by n-1          *)
(* tokens), as many times as there are evaluations.                        *)
C1_InjectionOnEveryEvaluation ==
    /\ \A e \in Entries : Len(e.vecs) = 1 =>
          /\ e.nadd = 1
          /\ ActOf(variant, e.ret) = TAdd(ActOf(variant, e.orig), e.vecs[1])
    /\ \A l \in Logs : \A i \in 1 .. Len(l) : Len(l[i].tokens) = Len(l[1].tokens) + i - 1
    /\ (gen.on /\ Len(InjVecs(hooks, wrapped, wSteer, heap)) = 1)
          => Cardinality({i \in 1 .. Len(evals) : evals[i].nadd = 1}) = gen.n

C1_Witness ==
    /\ gen.on /\ gen.n >= 2 /\ coeff # 0
    /\ \A i \in 1 .. Len(evals) : Len(evals[i].vecs) = 1 /\ evals[i].ret # evals[i].orig
    /\ evals[2].from > 1

(* C2: once the steered generation has been followed by its deactivation   *)
(* step, every later forward evaluation returns what the never-intercepted *)
(* model returns for the same input, and the final generation without      *)
(* steering yields the baseline tokens.                                    *)
C2_BaselineAfterDeactivation ==
    /\ \A e \in Entries : (e.life = "INACTIVE" /\ e.pc > FirstSteer) =>
          /\ e.vecs = <<>>
          /\ e.ret = PlainOut(variant, e.tokens, e.from)
          /\ e.down = PlainDown(e)
    /\ \A p \in DOMAIN results :
          (/\ results[p].done /\ ArgAt(p) = "base"
           /\ \A i \in 1 .. Len(results[p].evals) : results[p].evals[i].life = "INACTIVE")
          => results[p].tokens = PlainGenerate(variant, weight, prompt, 0)

C2_Witness ==
    /\ raised = {}
    /\ \E p, q \in DOMAIN results :
          /\ results[p].done /\ ArgAt(p) = "base" /\ Len(results[p].evals) >= 2
          /\ \A i \in 1 .. Len(results[p].evals) : results[p].evals[i].life = "INACTIVE"
          /\ results[q].done /\ ArgAt(q) = "pos"
          /\ results[q].tokens # results[p].tokens

(* C3: if the generation call made while the interception is active raises *)
(* an error, the interception is inactive afterwards: no injecting hook is *)
(* registered, the wrapper does not steer, and the c_attn bias is the      *)
(* original one.                                                           *)
C3_InactiveAfterError ==
    (\E p \in raised : ArgAt(p) \in {"pos", "neg"}) => NoInjection

(* C4: with Trace as a context manager the hook is registered exactly      *)
(* while the run is inside the with-block, whether the block is left       *)
(* normally or by an error.                                                *)
C4_TraceScopeBound ==
    variant \in {"baukit", "bias"} =>
       /\ (\E i \in 1 .. Len(hooks) : hooks[i].kind = "retain") <=> (Running /\ Stmt.inWith)
       /\ Len(hooks) <= 1

C4_Witness ==
    /\ variant = "baukit"
    /\ \E p \in raised : ArgAt(p) = "pos" /\ Prog(variant)[p].inWith /\ Len(results[p].evals) >= 1
    /\ hooks = <<>>

(* C5: with coefficient 0 every forward evaluation returns the output of   *)
(* the never-intercepted model and every generation yields the baseline    *)
(* tokens, although the wrapper takes its steering branch and the bias is  *)
(* a new Parameter.                                                        *)
C5_ZeroCoefficientIsNoOp ==
    coeff = 0 =>
       /\ \A e \in Entries : e.ret = PlainOut(variant, e.tokens, e.from) /\ e.down = PlainDown(e)
       /\ \A p \in DOMAIN results :
             results[p].done => results[p].tokens = PlainGenerate(variant, weight, prompt, 0)

C5_Witness ==
    /\ coeff = 0 /\ variant = "wrapper"
    /\ gen.on /\ gen.n >= 2
    /\ \A i \in 1 .. Len(evals) : evals[i].nadd = 1

(* C6: c_attn with the bias edited by change_bias_attn(v), applied to the  *)
(* unmodified layernorm output, equals the original c_attn applied to the  *)
(* layernorm output plus v; and the generation with the edited bias and    *)
(* the generation with act_add on the layernorm agree at every forward     *)
(* evaluation and in their tokens, for the same coefficient.               *)
EditedBias(W, v) == ChangeBiasAttn(<<Bias0, v>>, 1, W, 2)[3]

C6_BiasEditEqualsActAdd ==
    variant = "bias" =>
       /\ \A e \in Entries : (Len(e.vecs) = 1 /\ e.bias = Bias0) =>
             e.down = CAttn(e.orig, weight, EditedBias(weight, e.vecs[1]))
       /\ \A p, q \in DOMAIN results :
             (/\ p < q /\ results[p].done /\ results[q].done
              /\ ArgAt(p) = ArgAt(q) /\ ArgAt(p) \in {"pos", "neg"}
              /\ Prog(variant)[p].cell \notin aborted)
             => /\ results[p].tokens = results[q].tokens
                /\ Len(results[p].evals) = Len(results[q].evals)
                /\ \A i \in 1 .. Len(results[p].evals) :
                      results[p].evals[i].down = results[q].evals[i].down

C6_Witness ==
    /\ variant = "bias" /\ coeff # 0 /\ aborted = {}
    /\ \E p, q, r \in DOMAIN results :
          /\ p < q /\ results[p].done /\ results[q].done /\ results[r].done
          /\ ArgAt(p) = "pos" /\ ArgAt(q) = "pos" /\ ArgAt(r) = "base"
          /\ Len(results[q].evals) >= 2
          /\ results[q].evals[1].nadd = 1 /\ results[p].evals[1].nadd = 0
          /\ results[q].tokens # results[r].tokens

(* C7 as stated: after every call change_bias_attn(v) the bias is the      *)
(* original bias plus weight . v, also when an earlier edit has not been   *)
(* reset.                                                                  *)
C7_Original ==
    \A i \in 1 .. Len(calls) : calls[i].op = "change" =>
       calls[i].after = VAdd(Bias0, MatVec(calls[i].weight, calls[i].vec))

(* C7 amended: after every call change_bias_attn(v) the bias is the bias   *)
(* c_attn had when the call was made plus weight . v; that is the original *)
(* bias plus weight . v when no earlier edit is pending (the call is the   *)
(* first one or follows a reset).                                          *)
C7_BiasAfterChange ==
    \A i \in 1 .. Len(calls) : calls[i].op = "change" =>
       /\ calls[i].after = VAdd(calls[i].before, MatVec(calls[i].weight, calls[i].vec))
       /\ (i = 1 \/ calls[i - 1].op = "reset")
             => calls[i].after = VAdd(Bias0, MatVec(calls[i].weight, calls[i].vec))

C7_Witness ==
    \E i \in 2 .. Len(calls) :
       /\ calls[i].op = "change" /\ calls[i - 1].op = "change"
       /\ calls[i].before # Bias0
       /\ calls[i].after # VAdd(Bias0, MatVec(calls[i].weight, calls[i].vec))

(* C8: with org_bias saved once, any number of change_bias_attn calls      *)
(* followed by reset_bias_attn leaves the bias at its value before the     *)
(* first edit; the value org_bias refers to and the weight never change.   *)
C8_ResetRestoresOriginal ==
    /\ heap[org_bias] = Bias0
    /\ \A i \in 1 .. Len(calls) : calls[i].weight = weight
    /\ \A i \in 1 .. Len(calls) : calls[i].op = "reset" => calls[i].after = Bias0
    /\ (Len(calls) > 0 /\ calls[Len(calls)].op = "reset")
          => (biasRef = org_bias /\ heap[biasRef] = Bias0)

C8_Witness ==
    /\ Len(calls) >= 3
    /\ calls[1].op = "change" /\ calls[2].op = "change" /\ calls[3].op = "reset"
    /\ calls[1].after # Bias0 /\ calls[2].after # Bias0
    /\ Len(calls) = 3 => heap[biasRef] = Bias0

(* C9: a capture is observational: the value the interception point passes *)
(* downstream during a captured forward evaluation is the value it passes  *)
(* with nothing attached, and the captured activation is the activation of *)
(* that value.                                                             *)
C9_CaptureIsObservational ==
    \A e \in Entries : (e.capt # <<>> /\ e.vecs = <<>>) =>
       /\ e.ret = PlainOut(variant, e.tokens, e.from)
       /\ e.capt[1] = ActOf(variant, e.ret)
       /\ e.down = Downstream(variant, EvalAct(e.tokens, e.from), weight, e.bias)

C9_Witness ==
    /\ variant = "hooks" /\ At("remove") /\ Stmt.cell = 1
    /\ Len(cache) = 2
    /\ evals[1].capt = <<PointAct(hate)>>

(* C10: two captures in sequence yield two independent values: act_love    *)
(* is the point's output for the first input and stays so through every    *)
(* later forward evaluation, act_hate is the output for the second input,  *)
(* and the two are different tensors.                                      *)
C10_CapturesIndependent ==
    /\ act_love # None => heap[act_love] = PointAct(love)
    /\ act_hate # None =>
          /\ heap[act_hate] = PointAct(hate)
          /\ act_hate # act_love

C10_Witness ==
    /\ variant = "wrapper" /\ ~Running
    /\ act_love # None /\ act_hate # None
    /\ \E p \in DOMAIN results : results[p].done /\ ArgAt(p) = "base"

(* C11: the injection keeps the packaging of the output: for a tuple point *)
(* the returned tuple has the length of the original one, its first        *)
(* element is the original first element plus the steering vector and the  *)
(* remaining elements are the original ones in order; for a bare-tensor    *)
(* point the result is a tensor with the same number of positions and the  *)
(* same hidden size.                                                       *)
C11_PackagingPreserved ==
    \A e \in Entries : e.nadd = 1 =>
       IF TuplePoint(variant)
       THEN /\ Len(e.ret) = Len(e.orig)
            /\ e.ret[1] = TAdd(e.orig[1], e.vecs[1])
            /\ \A k \in 2 .. Len(e.orig) : e.ret[k] = e.orig[k]
       ELSE /\ Len(e.ret) = Len(e.orig)
            /\ \A i \in 1 .. Len(e.ret) : DOMAIN e.ret[i] = 1 .. Hidden
            /\ e.ret = TAdd(e.orig, e.vecs[1])

C11_Witness ==
    /\ variant = "hooks" /\ coeff # 0 /\ gen.on /\ gen.n >= 1
    /\ evals[1].nadd = 1 /\ Len(evals[1].orig) = 2
    /\ evals[1].ret[1] # evals[1].orig[1] /\ evals[1].ret[2] = evals[1].orig[2]

(* C12: when the two captured activations have identical last-position     *)
(* values, the derivation ends in a fatal error: no steering vector is     *)
(* produced and none is injected later.                                    *)
ZeroDifference ==
    /\ act_love # None /\ act_hate # None
    /\ LastPos(heap[act_love]) = LastPos(heap[act_hate])

C12_ZeroNormIsFatal ==
    ZeroDifference => (steering_vec = None /\ \A e \in Entries : e.vecs = <<>>)

(* C13 as stated: the steering vector derived from two distinct, non-empty *)
(* inputs has Euclidean norm exactly 1.                                    *)
Normalized == steering_vec # None /\ ~At("derive")
NormTol == Hidden + 1

C13_Original ==
    (Normalized /\ love # hate) => SumSq(heap[steering_vec]) = Unit * Unit

(* C13 amended: the steering vector derived from two distinct, non-empty   *)
(* inputs has Euclidean norm 1 up to the rounding of the division (within  *)
(* NormTol steps of the number grid), and is a single position of the      *)
(* hidden size.                                                            *)
C13_UnitNormWithinTolerance ==
    (Normalized /\ love # hate) =>
       /\ Len(heap[steering_vec]) = 1
       /\ DOMAIN heap[steering_vec][1] = 1 .. Hidden
       /\ \A k \in 1 .. Hidden : heap[steering_vec][1][k] # NaN
       /\ (Unit - NormTol) * (Unit - NormTol) <= SumSq(heap[steering_vec])
       /\ SumSq(heap[steering_vec]) <= (Unit + NormTol) * (Unit + NormTol)

C13_Witness ==
    /\ Normalized /\ love # hate /\ Len(love) # Len(hate)
    /\ SumSq(heap[steering_vec]) # Unit * Unit
    /\ \E k \in 1 .. Hidden : heap[steering_vec][1][k] # 0 /\ heap[steering_vec][1][k] # NaN

(* C14: for captured activations of any sequence lengths m, n >= 1 the     *)
(* un-normalized steering vector is the last position of the first minus   *)
(* the last position of the second, has sequence length 1, and is the      *)
(* same whatever the values at the other positions are.                    *)
Unnormalized == steering_vec # None /\ At("derive")

C14_LastPositionDifference ==
    Unnormalized =>
       LET a == heap[act_love]
           b == heap[act_hate]
       IN /\ Len(a) = Len(love) /\ Len(b) = Len(hate)
          /\ Len(heap[steering_vec]) = 1
          /\ \A k \in 1 .. Hidden :
                heap[steering_vec][1][k] = a[Len(a)][k] - b[Len(b)][k]
          /\ heap[steering_vec] = Difference(<<PointAct(love), PointAct(hate)>>, 1, 2)[3]

C14_Witness ==
    /\ Unnormalized
    /\ Len(heap[act_love]) = 2 /\ Len(heap[act_hate]) = 1
    /\ heap[act_love] # PointAct(love)
    /\ heap[act_love][1] # heap[act_love][2]
    /\ heap[steering_vec][1] # VSub(heap[act_love][1], heap[act_hate][1])

(* C15: in every reachable state at most one capture or injection          *)
(* attachment (forward hook, Trace, TransformerLens hook, wrapper) is on   *)
(* the interception point; every statement that attaches one is reached    *)
(* with none attached, also between the capture phase and the first        *)
(* steered generation and between the positive and the negative one; and   *)
(* no forward evaluation applies more than one injection.                  *)
Attachments == Len(hooks) + (IF wrapped THEN 1 ELSE 0)
AtAttach == Running /\ Stmt.op \in {"reg_cache", "reg_add", "add_hook", "trace_enter",
                                    "run_with_cache", "wrap"}

C15_AtMostOneAttachment ==
    /\ Attachments <= 1
    /\ AtAttach => Attachments = 0
    /\ \A e \in Entries : e.nadd <= 1 /\ Len(e.vecs) <= 1

C15_Witness ==
    /\ variant = "hooks" /\ At("reg_add") /\ Stmt.arg = "neg"
    /\ Attachments = 0 /\ handle # None /\ coeff # 0
    /\ \E p \in DOMAIN results : results[p].done /\ ArgAt(p) = "pos" /\ results[p].evals[1].nadd = 1

(* C16: the interception only goes INACTIVE -> ACTIVE -> INACTIVE: every   *)
(* statement that starts a steered generation with a new coefficient       *)
(* (attach, enter scope, set steering vector, edit bias) is reached in     *)
(* state INACTIVE, in every variant, the wrapper's two assignments to      *)
(* steering_vec included.  (Runs without an error in generate.)            *)
AtActivation ==
    /\ Running
    /\ Stmt.op \in {"reg_add", "add_hook", "trace_enter", "set_vec", "change_bias"}
    /\ Stmt.arg \in {"pos", "neg"}

C16_ActivationFromInactive ==
    (raised = {} /\ AtActivation) => (Lifecycle = "INACTIVE" /\ NoInjection)

(* C17: an attachment made by an explicit attach (register_forward_hook,   *)
(* add_hook, assignment of the wrapper's steering_vec, change_bias_attn)   *)
(* and not yet released by its release statement is still in place in      *)
(* every state, after any number of forward evaluations and generate       *)
(* calls, however they ended; every forward evaluation made in between is  *)
(* steered by it.                                                          *)
ExplicitHooks == variant \in {"hooks", "tlens"}
LastChange == CHOOSE i \in 1 .. Len(calls) :
                 calls[i].op = "change" /\ \A j \in (i + 1) .. Len(calls) : calls[j].op # "change"

C17_ActiveUntilReleased ==
    /\ (ExplicitHooks /\ "hook" \in active) =>
          \E i \in 1 .. Len(hooks) : hooks[i].kind = "act_add" /\ hooks[i].vec # None
    /\ "wrapper" \in active => (wrapped /\ wSteer # None)
    /\ "bias" \in active =>
          (biasRef # org_bias /\ heap[biasRef] = calls[LastChange].after)
    /\ \A e \in Entries :
          (e.life = "ACTIVE" /\ variant \in {"hooks", "tlens", "wrapper"}) =>
             /\ Len(e.vecs) = 1 /\ e.nadd = 1
             /\ ActOf(variant, e.ret) = TAdd(ActOf(variant, e.orig), e.vecs[1])
    /\ \A e \in Entries :
          (e.life = "ACTIVE" /\ variant = "bias" /\ Prog(variant)[e.pc].cell < 6) =>
             /\ \E i \in 1 .. Len(calls) : calls[i].op = "change" /\ e.bias = calls[i].after
             /\ e.down = CAttn(e.orig, weight, e.bias)

C17_Witness ==
    /\ variant = "hooks" /\ coeff # 0 /\ ~Running
    /\ \E r \in raised : ArgAt(r) = "pos" /\ Len(results[r].evals) >= 1
    /\ "hook" \in active
    /\ \E p \in DOMAIN results :
          /\ results[p].done /\ ArgAt(p) = "base" /\ Len(results[p].evals) >= 2
          /\ \A i \in 1 .. Len(results[p].evals) :
                results[p].evals[i].nadd = 1 /\ results[p].evals[i].ret # results[p].evals[i].orig

(* C18: attaching the injection and running forward evaluations leaves the *)
(* derived steering vector as it was derived; the vector injected in the   *)
(* coefficient -c run (by a hook, the wrapper or change_bias_attn) is the  *)
(* negation of the one injected in the coefficient +c run, and each is     *)
(* the coefficient times the derived vector.                               *)
DerivedVec ==
    LET raw == <<VSub(PrefixAct(love, Len(love)), PrefixAct(hate, Len(hate)))>>
        n == Norm(raw)
    IN [i \in 1 .. 1 |-> [k \in 1 .. Hidden |-> SDiv(raw[1][k], n)]]
Steered(e) == Len(e.vecs) = 1 /\ ArgAt(e.pc) \in {"pos", "neg"}

C18_SteeringVectorUnchanged ==
    LET d == DerivedVec
        pos == {e.vecs[1] : e \in {x \in Entries : Steered(x) /\ ArgAt(x.pc) = "pos"}}
        neg == {e.vecs[1] : e \in {x \in Entries : Steered(x) /\ ArgAt(x.pc) = "neg"}}
    IN /\ Normalized => heap[steering_vec] = d
       /\ \A v \in pos : v = TScale(coeff, d)
       /\ \A v \in neg : v = TScale(0 - coeff, d)
       /\ \A v \in pos : \A w \in neg : \A k \in 1 .. Hidden : w[1][k] = 0 - v[1][k]
       /\ \A i, j \in 1 .. Len(calls) :
             (i < j /\ calls[i].op = "change" /\ calls[j].op = "change")
                => /\ calls[i].vec = VScale(coeff, d[1])
                   /\ \A k \in 1 .. Hidden : calls[j].vec[k] = 0 - calls[i].vec[k]

C18_Witness ==
    /\ variant = "wrapper" /\ coeff # 0 /\ ~Running /\ raised = {}
    /\ heap[steering_vec] = DerivedVec
    /\ \E p, q \in DOMAIN results :
          /\ results[p].done /\ ArgAt(p) = "pos" /\ results[q].done /\ ArgAt(q) = "neg"
          /\ Len(results[p].evals) >= 2
          /\ results[p].evals[1].vecs # <<>> /\ results[q].evals[1].vecs # <<>>
          /\ results[q].evals[1].vecs[1] # results[p].evals[1].vecs[1]

(* C19: after every forward call of the WrappedModule, self.output is the  *)
(* wrapped module's own output for that call, without the steering vector, *)
(* whether steering_vec is None or set; the value returned downstream is   *)
(* self.output when steering_vec is None, and otherwise differs from it    *)
(* only in the first tuple element, by steering_vec.                       *)
AfterWrappedCall == variant = "wrapper" /\ wrapped /\ evals # <<>>
LastEval == evals[Len(evals)]

C19_WrapperOutputUnsteered ==
    AfterWrappedCall =>
       LET out == Deref(variant, wOutput, heap)
       IN /\ out = PlainOut(variant, LastEval.tokens, LastEval.from)
          /\ out = LastEval.orig
          /\ LastEval.capt = <<out[1]>>
          /\ LastEval.vecs = <<>> => LastEval.ret = out
          /\ LastEval.vecs # <<>> =>
                /\ Len(LastEval.ret) = Len(out)
                /\ \A k \in 2 .. Len(out) : LastEval.ret[k] = out[k]
                /\ \A i \in 1 .. Len(out[1]) : \A k \in 1 .. Hidden :
                      LastEval.ret[1][i][k] = out[1][i][k] + LastEval.vecs[1][1][k]

C19_Witness ==
    /\ AfterWrappedCall /\ coeff # 0 /\ gen.on /\ gen.n >= 2
    /\ wSteer # None /\ LastEval.vecs = <<heap[wSteer]>>
    /\ LastEval.ret[1] # Deref(variant, wOutput, heap)[1]
    /\ Deref(variant, wOutput, heap)[1] = EvalAct(LastEval.tokens, LastEval.from)

(* C20: in a forward evaluation over S positions the injection adds the    *)
(* same single-position vector to the output at every one of the S         *)
(* positions, for the full-prompt evaluation (S the prompt length) and     *)
(* for the one-token evaluations that follow (S = 1).                      *)
C20_AddedAtEveryPosition ==
    \A e \in Entries : e.nadd = 1 =>
       LET o == ActOf(variant, e.orig)
           r == ActOf(variant, e.ret)
       IN /\ Len(e.vecs[1]) = 1
          /\ Len(o) = Len(e.tokens) - e.from + 1
          /\ Len(r) = Len(o)
          /\ \A i \in 1 .. Len(o) : \A k \in 1 .. Hidden :
                r[i][k] = o[i][k] + e.vecs[1][1][k]

C20_Witness ==
    /\ coeff # 0 /\ variant = "tlens" /\ gen.on /\ gen.n >= 2
    /\ evals[1].nadd = 1 /\ Len(evals[1].orig) = 2
    /\ evals[1].ret[1] # evals[1].orig[1] /\ evals[1].ret[2] # evals[1].orig[2]
    /\ evals[2].nadd = 1 /\ Len(evals[2].orig) = 1 /\ evals[2].ret # evals[2].orig

====
